---- MODULE Spec2Model ----
(***************************************************************************)
(* awarecache: seven eviction policies (cache_strategies.py) behind a      *)
(* context router (cache.py) with hit/miss counters (cache_metrics.py).    *)
(*                                                                         *)
(* Python values are modelled as follows.  An OrderedDict is a sequence of *)
(* <<key, value>> pairs (first = oldest end, last = newest end).  A dict   *)
(* is a function whose DOMAIN is the key set.  A deque or list is a        *)
(* sequence.  An optional argument or return value is <<>> (None) or <<x>>.*)
(* A call yields a record [st, ret, err]: the object's state when the call *)
(* ends, its return value, and the name of the exception that ended it     *)
(* ("" when it returned).                                                  *)
(***************************************************************************)
EXTENDS Integers, Sequences, FiniteSets, TLC

\* ---- bounds of the model ----
MaxCap == 2
MaxFreq == 3
MaxOps == 3

\* ---- program constants ----
MISS == -1
DefaultCapacity == 100

\* ---- inputs ----
Keys == {"a", "b", "c"}
RouterKeys == {"a", "b"}
EmptyKey == ""
Values == {-1, 1, 2}
RouterValues == {-1, 1}
Contexts == {"c1", "c2"}
EmptyContext == ""
UnknownPolicy == "ARC"
None == << >>
Some(x) == << x >>

VARIABLES context_cache, context_policies, hits, misses, last

vars == << context_cache, context_policies, hits, misses, last >>

\* ---- dict / OrderedDict / deque primitives ----
EmptyDict == << >>

DictSet(d, k, v) == [x \in (DOMAIN d) \cup {k} |-> IF x = k THEN v ELSE d[x]]

DictDel(d, k) == [x \in (DOMAIN d) \ {k} |-> d[x]]

DictLen(d) == Cardinality(DOMAIN d)

RemoveAt(s, i) == SubSeq(s, 1, i - 1) \o SubSeq(s, i + 1, Len(s))

SeqHas(s, k) == \E i \in 1..Len(s) : s[i] = k

SeqIndex(s, k) == CHOOSE i \in 1..Len(s) : s[i] = k /\ \A j \in 1..(i - 1) : s[j] # k

SeqRemove(s, k) == RemoveAt(s, SeqIndex(s, k))

ODHas(od, k) == \E i \in 1..Len(od) : od[i][1] = k

ODIndex(od, k) == CHOOSE i \in 1..Len(od) : od[i][1] = k

ODGet(od, k) == od[ODIndex(od, k)][2]

ODKeys(od) == {od[i][1] : i \in 1..Len(od)}

\* the keys of an OrderedDict in iteration order, oldest first
KeySeq(od) == [i \in 1..Len(od) |-> od[i][1]]

ODMoveToEnd(od, k) == RemoveAt(od, ODIndex(od, k)) \o << od[ODIndex(od, k)] >>

ODSet(od, k, v) ==
  IF ODHas(od, k) THEN [od EXCEPT ![ODIndex(od, k)] = << k, v >>]
  ELSE Append(od, << k, v >>)

ODPopFirst(od) == Tail(od)

ODPopLast(od) == SubSeq(od, 1, Len(od) - 1)

Res(st, ret, err) == [st |-> st, ret |-> ret, err |-> err]

\* ---- LRUCache ----
LRUCache(capacity) == [kind |-> "LRU", capacity |-> capacity, cache |-> << >>]

\* LRUGet reading in place, without move_to_end
LRUGetInPlace(s, key) ==
  IF ~ODHas(s.cache, key) THEN Res(s, Some(MISS), "")
  ELSE Res(s, Some(ODGet(s.cache, key)), "")

LRUGet(s, key) ==
  IF ~ODHas(s.cache, key) THEN Res(s, Some(MISS), "")
  ELSE LET c1 == ODMoveToEnd(s.cache, key)
       IN Res([s EXCEPT !.cache = c1], Some(ODGet(c1, key)), "")

\* LRUPut with the overflow test off by one
LRUPutLate(s, key, value) ==
  LET c1 == IF ODHas(s.cache, key) THEN ODMoveToEnd(s.cache, key) ELSE s.cache
      c2 == ODSet(c1, key, value)
      c3 == IF Len(c2) > s.capacity + 1 THEN ODPopFirst(c2) ELSE c2
  IN Res([s EXCEPT !.cache = c3], None, "")

LRUPut(s, key, value) ==
  LET c1 == IF ODHas(s.cache, key) THEN ODMoveToEnd(s.cache, key) ELSE s.cache
      c2 == ODSet(c1, key, value)
      c3 == IF Len(c2) > s.capacity THEN ODPopFirst(c2) ELSE c2
  IN Res([s EXCEPT !.cache = c3], None, "")

\* ---- MRUCache ----
MRUCache(capacity) == [kind |-> "MRU", capacity |-> capacity, cache |-> << >>]

MRUGet(s, key) ==
  IF ~ODHas(s.cache, key) THEN Res(s, Some(MISS), "")
  ELSE Res(s, Some(ODGet(s.cache, key)), "")

\* MRUPut that evicts the entry that was most recent before the insertion
MRUPutEvictsPrevious(s, key, value) ==
  LET c1 == IF ODHas(s.cache, key) THEN ODMoveToEnd(s.cache, key) ELSE s.cache
      c2 == IF ~ODHas(c1, key) /\ Len(c1) >= s.capacity THEN ODPopLast(c1) ELSE c1
  IN Res([s EXCEPT !.cache = ODSet(c2, key, value)], None, "")

MRUPut(s, key, value) ==
  LET c1 == IF ODHas(s.cache, key) THEN ODMoveToEnd(s.cache, key) ELSE s.cache
      c2 == ODSet(c1, key, value)
      c3 == IF Len(c2) > s.capacity THEN ODPopLast(c2) ELSE c2
  IN Res([s EXCEPT !.cache = c3], None, "")

\* ---- FIFOCache ----
FIFOCache(capacity) ==
  [kind |-> "FIFO", capacity |-> capacity, cache |-> EmptyDict, order |-> << >>]

FIFOGet(s, key) ==
  Res(s, Some(IF key \in DOMAIN s.cache THEN s.cache[key] ELSE MISS), "")

\* FIFOPut that keeps the arrival position of a resident key
FIFOPutKeepsRank(s, key, value) ==
  IF key \in DOMAIN s.cache THEN
    Res([s EXCEPT !.cache = DictSet(s.cache, key, value)], None, "")
  ELSE IF DictLen(s.cache) >= s.capacity THEN
    IF s.order = << >> THEN Res(s, None, "IndexError")
    ELSE IF Head(s.order) \notin DOMAIN s.cache
      THEN Res([s EXCEPT !.order = Tail(s.order)], None, "KeyError")
    ELSE Res([s EXCEPT !.cache = DictSet(DictDel(s.cache, Head(s.order)), key, value),
                       !.order = Append(Tail(s.order), key)], None, "")
  ELSE Res([s EXCEPT !.cache = DictSet(s.cache, key, value),
                     !.order = Append(s.order, key)], None, "")

FIFOPut(s, key, value) ==
  IF key \in DOMAIN s.cache THEN
    IF ~SeqHas(s.order, key) THEN Res(s, None, "ValueError")
    ELSE Res([s EXCEPT !.cache = DictSet(s.cache, key, value),
                       !.order = Append(SeqRemove(s.order, key), key)], None, "")
  ELSE IF DictLen(s.cache) >= s.capacity THEN
    IF s.order = << >> THEN Res(s, None, "IndexError")
    ELSE IF Head(s.order) \notin DOMAIN s.cache
      THEN Res([s EXCEPT !.order = Tail(s.order)], None, "KeyError")
    ELSE Res([s EXCEPT !.cache = DictSet(DictDel(s.cache, Head(s.order)), key, value),
                       !.order = Append(Tail(s.order), key)], None, "")
  ELSE Res([s EXCEPT !.cache = DictSet(s.cache, key, value),
                     !.order = Append(s.order, key)], None, "")

\* ---- LFUCache ----
LFUCache(capacity) ==
  [kind |-> "LFU", capacity |-> capacity, cache |-> EmptyDict,
   freq |-> EmptyDict, min_freq |-> 0]

\* self.freq[f] on the defaultdict(OrderedDict); a bucket is the sequence of its keys
Bucket(freq, f) == IF f \in DOMAIN freq THEN freq[f] ELSE << >>

BucketAdd(b, k) == IF SeqHas(b, k) THEN b ELSE Append(b, k)

\* LFUUpdate that leaves min_freq alone when the minimum bucket empties
LFUUpdateKeepsMin(s, key, value, freq) ==
  LET s1 == [s EXCEPT !.cache = DictSet(s.cache, key, << value, freq + 1 >>)]
      old == Bucket(s.freq, freq)
  IN IF ~SeqHas(old, key)
       THEN Res([s1 EXCEPT !.freq = DictSet(s.freq, freq, old)], None, "KeyError")
     ELSE LET b == SeqRemove(old, key)
              f1 == IF b = << >> THEN DictDel(s.freq, freq) ELSE DictSet(s.freq, freq, b)
              f2 == DictSet(f1, freq + 1, BucketAdd(Bucket(f1, freq + 1), key))
          IN Res([s1 EXCEPT !.freq = f2], None, "")

LFUUpdate(s, key, value, freq) ==
  LET s1 == [s EXCEPT !.cache = DictSet(s.cache, key, << value, freq + 1 >>)]
      old == Bucket(s.freq, freq)
  IN IF ~SeqHas(old, key)
       THEN Res([s1 EXCEPT !.freq = DictSet(s.freq, freq, old)], None, "KeyError")
     ELSE LET b == SeqRemove(old, key)
              f1 == IF b = << >> THEN DictDel(s.freq, freq) ELSE DictSet(s.freq, freq, b)
              m1 == IF b = << >> /\ freq = s.min_freq THEN s.min_freq + 1 ELSE s.min_freq
              f2 == DictSet(f1, freq + 1, BucketAdd(Bucket(f1, freq + 1), key))
          IN Res([s1 EXCEPT !.freq = f2, !.min_freq = m1], None, "")

LFUEvict(s) ==
  LET b == Bucket(s.freq, s.min_freq)
  IN IF b = << >>
       THEN Res([s EXCEPT !.freq = DictSet(s.freq, s.min_freq, << >>)], None, "KeyError")
     ELSE IF Head(b) \notin DOMAIN s.cache
       THEN Res([s EXCEPT !.freq = DictSet(s.freq, s.min_freq, Tail(b))], None, "KeyError")
     ELSE Res([s EXCEPT !.freq = DictSet(s.freq, s.min_freq, Tail(b)),
                        !.cache = DictDel(s.cache, Head(b))], None, "")

LFUGet(s, key) ==
  IF key \notin DOMAIN s.cache THEN Res(s, Some(MISS), "")
  ELSE LET r == LFUUpdate(s, key, s.cache[key][1], s.cache[key][2])
       IN Res(r.st, IF r.err = "" THEN Some(s.cache[key][1]) ELSE None, r.err)

\* LFUPut that leaves min_freq alone when it inserts a new key
LFUPutKeepsMin(s, key, value) ==
  IF s.capacity <= 0 THEN Res(s, None, "ValueError")
  ELSE IF key \in DOMAIN s.cache THEN LFUUpdate(s, key, value, s.cache[key][2])
  ELSE LET e == IF DictLen(s.cache) >= s.capacity THEN LFUEvict(s) ELSE Res(s, None, "")
       IN IF e.err # "" THEN e
          ELSE Res([e.st EXCEPT !.cache = DictSet(e.st.cache, key, << value, 1 >>),
                                !.freq = DictSet(e.st.freq, 1, BucketAdd(Bucket(e.st.freq, 1), key))],
                   None, "")

LFUPut(s, key, value) ==
  IF s.capacity <= 0 THEN Res(s, None, "ValueError")
  ELSE IF key \in DOMAIN s.cache THEN LFUUpdate(s, key, value, s.cache[key][2])
  ELSE LET e == IF DictLen(s.cache) >= s.capacity THEN LFUEvict(s) ELSE Res(s, None, "")
       IN IF e.err # "" THEN e
          ELSE Res([e.st EXCEPT !.cache = DictSet(e.st.cache, key, << value, 1 >>),
                                !.freq = DictSet(e.st.freq, 1, BucketAdd(Bucket(e.st.freq, 1), key)),
                                !.min_freq = 1], None, "")

\* ---- TinyLFUCache ----
TinyLFUCache(capacity) ==
  [kind |-> "TinyLFU", capacity |-> capacity, cache |-> << >>, frequency |-> EmptyDict]

\* self.frequency[k] on the Counter: 0 for a key it does not hold
Count(frequency, k) == IF k \in DOMAIN frequency THEN frequency[k] ELSE 0

TinyLFUGet(s, key) ==
  IF ~ODHas(s.cache, key) THEN Res(s, Some(MISS), "")
  ELSE Res([s EXCEPT !.frequency = DictSet(s.frequency, key, Count(s.frequency, key) + 1),
                     !.cache = ODMoveToEnd(s.cache, key)],
           Some(ODGet(s.cache, key)), "")

\* min(self.cache, key=...) returns the first key, in order, of minimal count
LeastFrequentIndex(s) ==
  CHOOSE i \in 1..Len(s.cache) :
    /\ \A j \in 1..Len(s.cache) :
         Count(s.frequency, s.cache[j][1]) >= Count(s.frequency, s.cache[i][1])
    /\ \A j \in 1..(i - 1) :
         Count(s.frequency, s.cache[j][1]) > Count(s.frequency, s.cache[i][1])

\* TinyLFUEvict that keeps the counter of the evicted key
TinyLFUEvictKeepsCount(s) ==
  IF s.cache = << >> THEN Res(s, None, "ValueError")
  ELSE Res([s EXCEPT !.cache = RemoveAt(s.cache, LeastFrequentIndex(s))], None, "")

TinyLFUEvict(s) ==
  IF s.cache = << >> THEN Res(s, None, "ValueError")
  ELSE LET i == LeastFrequentIndex(s)
       IN Res([s EXCEPT !.cache = RemoveAt(s.cache, i),
                        !.frequency = DictDel(s.frequency, s.cache[i][1])], None, "")

TinyLFUPut(s, key, value) ==
  IF ODHas(s.cache, key) THEN Res([s EXCEPT !.cache = ODMoveToEnd(s.cache, key)], None, "")
  ELSE LET e == IF Len(s.cache) >= s.capacity THEN TinyLFUEvict(s) ELSE Res(s, None, "")
       IN IF e.err # "" THEN e
          ELSE Res([e.st EXCEPT !.cache = ODSet(e.st.cache, key, value),
                                !.frequency = DictSet(e.st.frequency, key,
                                                      Count(e.st.frequency, key) + 1)],
                   None, "")

\* ---- SLRUCache ----
\* protected_ratio is the fraction ratio[1] / ratio[2]; the default is 0.5
DefaultRatio == << 1, 2 >>

SLRUCache(capacity, ratio) ==
  [kind |-> "SLRU",
   protected_capacity |-> (capacity * ratio[1]) \div ratio[2],
   probation_capacity |-> capacity - ((capacity * ratio[1]) \div ratio[2]),
   probation |-> << >>, protected |-> << >>,
   probation_cache |-> EmptyDict, protected_cache |-> EmptyDict]

\* SLRUPromote that appends without making room in a full protected segment
SLRUPromoteNoEvict(s, key, value) ==
  Res([s EXCEPT !.protected = Append(s.protected, key),
                !.protected_cache = DictSet(s.protected_cache, key, value)], None, "")

SLRUPromote(s, key, value) ==
  IF DictLen(s.protected_cache) >= s.protected_capacity THEN
    IF s.protected = << >> THEN Res(s, None, "IndexError")
    ELSE IF Head(s.protected) \notin DOMAIN s.protected_cache
      THEN Res([s EXCEPT !.protected = Tail(s.protected)], None, "KeyError")
    ELSE Res([s EXCEPT !.protected = Append(Tail(s.protected), key),
                       !.protected_cache =
                          DictSet(DictDel(s.protected_cache, Head(s.protected)), key, value)],
             None, "")
  ELSE Res([s EXCEPT !.protected = Append(s.protected, key),
                     !.protected_cache = DictSet(s.protected_cache, key, value)], None, "")

SLRUGet(s, key) ==
  IF key \in DOMAIN s.protected_cache THEN Res(s, Some(s.protected_cache[key]), "")
  ELSE IF key \in DOMAIN s.probation_cache THEN
    LET value == s.probation_cache[key]
        s1 == [s EXCEPT !.probation_cache = DictDel(s.probation_cache, key)]
    IN IF ~SeqHas(s.probation, key) THEN Res(s1, None, "ValueError")
       ELSE LET r == SLRUPromote([s1 EXCEPT !.probation = SeqRemove(s.probation, key)],
                                 key, value)
            IN Res(r.st, IF r.err = "" THEN Some(value) ELSE None, r.err)
  ELSE Res(s, Some(MISS), "")

SLRUPut(s, key, value) ==
  IF key \in DOMAIN s.protected_cache
    THEN Res([s EXCEPT !.protected_cache = DictSet(s.protected_cache, key, value)], None, "")
  ELSE IF key \in DOMAIN s.probation_cache
    THEN SLRUPromote([s EXCEPT !.probation_cache = DictSet(s.probation_cache, key, value)],
                     key, value)
  ELSE IF DictLen(s.probation_cache) >= s.probation_capacity THEN
    IF s.probation = << >> THEN Res(s, None, "IndexError")
    ELSE IF Head(s.probation) \notin DOMAIN s.probation_cache
      THEN Res([s EXCEPT !.probation = Tail(s.probation)], None, "KeyError")
    ELSE Res([s EXCEPT !.probation = Append(Tail(s.probation), key),
                       !.probation_cache =
                          DictSet(DictDel(s.probation_cache, Head(s.probation)), key, value)],
             None, "")
  ELSE Res([s EXCEPT !.probation = Append(s.probation, key),
                     !.probation_cache = DictSet(s.probation_cache, key, value)], None, "")

\* ---- ClockCache ----
ClockCache(capacity) ==
  [kind |-> "Clock", capacity |-> capacity, cache |-> EmptyDict,
   reference_bits |-> EmptyDict, pointer |-> 0, keys |-> << >>]

\* ClockGet marking the reference bit before it tests for the key
ClockGetMarksFirst(s, key) ==
  IF key \notin DOMAIN s.cache
    THEN Res([s EXCEPT !.reference_bits = DictSet(s.reference_bits, key, 1)], Some(MISS), "")
  ELSE Res([s EXCEPT !.reference_bits = DictSet(s.reference_bits, key, 1)],
           Some(s.cache[key]), "")

\* ClockGet that also advances the pointer on a hit
ClockGetAdvances(s, key) ==
  IF key \notin DOMAIN s.cache THEN Res(s, Some(MISS), "")
  ELSE Res([s EXCEPT !.reference_bits = DictSet(s.reference_bits, key, 1),
                     !.pointer = (s.pointer + 1) % s.capacity],
           Some(s.cache[key]), "")

ClockGet(s, key) ==
  IF key \notin DOMAIN s.cache THEN Res(s, Some(MISS), "")
  ELSE Res([s EXCEPT !.reference_bits = DictSet(s.reference_bits, key, 1)],
           Some(s.cache[key]), "")

\* the while True loop of put; keys[pointer] is the 0-based list index
RECURSIVE ClockSweep(_, _, _)
ClockSweep(s, key, value) ==
  IF s.pointer >= Len(s.keys) THEN Res(s, None, "IndexError")
  ELSE LET current_key == s.keys[s.pointer + 1]
       IN IF current_key \notin DOMAIN s.reference_bits THEN Res(s, None, "KeyError")
          ELSE IF s.reference_bits[current_key] = 0
            THEN Res([s EXCEPT !.cache = DictSet(DictDel(s.cache, current_key), key, value),
                               !.reference_bits =
                                  DictSet(DictDel(s.reference_bits, current_key), key, 1),
                               !.keys = [s.keys EXCEPT ![s.pointer + 1] = key]],
                     None, "")
          ELSE ClockSweep([s EXCEPT !.reference_bits = DictSet(s.reference_bits, current_key, 0),
                                    !.pointer = (s.pointer + 1) % s.capacity],
                          key, value)

\* the number of slots the while True loop of put examines before it breaks
RECURSIVE SweepExamined(_)
SweepExamined(s) ==
  IF s.pointer >= Len(s.keys) THEN 1
  ELSE LET current_key == s.keys[s.pointer + 1]
       IN IF current_key \notin DOMAIN s.reference_bits THEN 1
          ELSE IF s.reference_bits[current_key] = 0 THEN 1
          ELSE 1 + SweepExamined([s EXCEPT !.reference_bits =
                                              DictSet(s.reference_bits, current_key, 0),
                                           !.pointer = (s.pointer + 1) % s.capacity])

\* ClockPut that appends to a full slot array instead of sweeping
ClockPutNoSweep(s, key, value) ==
  IF key \in DOMAIN s.cache
    THEN Res([s EXCEPT !.cache = DictSet(s.cache, key, value),
                       !.reference_bits = DictSet(s.reference_bits, key, 1)], None, "")
  ELSE Res([s EXCEPT !.cache = DictSet(s.cache, key, value),
                     !.reference_bits = DictSet(s.reference_bits, key, 1),
                     !.keys = Append(s.keys, key)], None, "")

\* ClockPut that gives a resident key a second slot while there is room
ClockPutAppendsAgain(s, key, value) ==
  IF key \in DOMAIN s.cache /\ DictLen(s.cache) >= s.capacity
    THEN Res([s EXCEPT !.cache = DictSet(s.cache, key, value),
                       !.reference_bits = DictSet(s.reference_bits, key, 1)], None, "")
  ELSE IF DictLen(s.cache) < s.capacity
    THEN Res([s EXCEPT !.cache = DictSet(s.cache, key, value),
                       !.reference_bits = DictSet(s.reference_bits, key, 1),
                       !.keys = Append(s.keys, key)], None, "")
  ELSE ClockSweep(s, key, value)

ClockPut(s, key, value) ==
  IF key \in DOMAIN s.cache
    THEN Res([s EXCEPT !.cache = DictSet(s.cache, key, value),
                       !.reference_bits = DictSet(s.reference_bits, key, 1)], None, "")
  ELSE IF DictLen(s.cache) < s.capacity
    THEN Res([s EXCEPT !.cache = DictSet(s.cache, key, value),
                       !.reference_bits = DictSet(s.reference_bits, key, 1),
                       !.keys = Append(s.keys, key)], None, "")
  ELSE ClockSweep(s, key, value)

\* ---- dispatch on the class of a policy instance ----
PolicyNames == {"LRU", "LFU", "MRU", "FIFO", "TinyLFU", "SLRU", "Clock"}

PolicyGet(s, key) ==
  CASE s.kind = "LRU" -> LRUGet(s, key)
    [] s.kind = "LFU" -> LFUGet(s, key)
    [] s.kind = "MRU" -> MRUGet(s, key)
    [] s.kind = "FIFO" -> FIFOGet(s, key)
    [] s.kind = "TinyLFU" -> TinyLFUGet(s, key)
    [] s.kind = "SLRU" -> SLRUGet(s, key)
    [] s.kind = "Clock" -> ClockGet(s, key)

PolicyPut(s, key, value) ==
  CASE s.kind = "LRU" -> LRUPut(s, key, value)
    [] s.kind = "LFU" -> LFUPut(s, key, value)
    [] s.kind = "MRU" -> MRUPut(s, key, value)
    [] s.kind = "FIFO" -> FIFOPut(s, key, value)
    [] s.kind = "TinyLFU" -> TinyLFUPut(s, key, value)
    [] s.kind = "SLRU" -> SLRUPut(s, key, value)
    [] s.kind = "Clock" -> ClockPut(s, key, value)

\* no policy class defines clear(): the attribute lookup raises
PolicyClear(s) == Res(s, None, "AttributeError")

\* the keys a policy instance holds, and how many entries it holds
ResidentKeys(s) ==
  CASE s.kind \in {"LRU", "MRU", "TinyLFU"} -> ODKeys(s.cache)
    [] s.kind \in {"LFU", "FIFO", "Clock"} -> DOMAIN s.cache
    [] s.kind = "SLRU" -> (DOMAIN s.probation_cache) \cup (DOMAIN s.protected_cache)

Size(s) ==
  CASE s.kind \in {"LRU", "MRU", "TinyLFU"} -> Len(s.cache)
    [] s.kind \in {"LFU", "FIFO", "Clock"} -> DictLen(s.cache)
    [] s.kind = "SLRU" -> DictLen(s.probation_cache) + DictLen(s.protected_cache)

\* the value an instance holds under a resident key (SLRU looks in protected first)
StoredValue(s, key) ==
  CASE s.kind \in {"LRU", "MRU", "TinyLFU"} -> ODGet(s.cache, key)
    [] s.kind = "LFU" -> s.cache[key][1]
    [] s.kind \in {"FIFO", "Clock"} -> s.cache[key]
    [] s.kind = "SLRU" -> IF key \in DOMAIN s.protected_cache THEN s.protected_cache[key]
                          ELSE s.probation_cache[key]

\* the capacity an instance was built with (SLRU keeps only its two segment capacities)
Capacity(s) ==
  IF s.kind = "SLRU" THEN s.protected_capacity + s.probation_capacity ELSE s.capacity

\* POLICY_MAP[policy](capacity): every __init__ starts with "if capacity <= 0: raise",
\* a comparison that itself raises TypeError when capacity is None
\* the constructors rejecting only negative capacities
NewPolicyAllowsZero(policy, capacity) ==
  IF capacity = None THEN Res(None, None, "TypeError")
  ELSE IF capacity[1] < 0 THEN Res(None, None, "ValueError")
  ELSE Res(CASE policy = "LRU" -> LRUCache(capacity[1])
             [] policy = "LFU" -> LFUCache(capacity[1])
             [] policy = "MRU" -> MRUCache(capacity[1])
             [] policy = "FIFO" -> FIFOCache(capacity[1])
             [] policy = "TinyLFU" -> TinyLFUCache(capacity[1])
             [] policy = "SLRU" -> SLRUCache(capacity[1], DefaultRatio)
             [] policy = "Clock" -> ClockCache(capacity[1]),
           None, "")

NewPolicy(policy, capacity) ==
  IF capacity = None THEN Res(None, None, "TypeError")
  ELSE IF capacity[1] <= 0 THEN Res(None, None, "ValueError")
  ELSE Res(CASE policy = "LRU" -> LRUCache(capacity[1])
             [] policy = "LFU" -> LFUCache(capacity[1])
             [] policy = "MRU" -> MRUCache(capacity[1])
             [] policy = "FIFO" -> FIFOCache(capacity[1])
             [] policy = "TinyLFU" -> TinyLFUCache(capacity[1])
             [] policy = "SLRU" -> SLRUCache(capacity[1], DefaultRatio)
             [] policy = "Clock" -> ClockCache(capacity[1]),
           None, "")

CreateCache(policy, capacity) ==
  IF policy \in PolicyNames THEN NewPolicy(policy, capacity)
  ELSE Res(None, None, "ValueError")

\* ---- the record of the call just made ----
\* resident, size: whether the key was held by, and how many entries were in,
\* the addressed cache when the call was made
Call(op, context, key, value, policy, capacity, ret, err, resident, size) ==
  [op |-> op, context |-> context, key |-> key, value |-> value, policy |-> policy,
   capacity |-> capacity, ret |-> ret, err |-> err, resident |-> resident, size |-> size]

SizeIn(context) ==
  IF context \in DOMAIN context_cache THEN Size(context_cache[context]) ELSE 0

ResidentIn(context, key) ==
  context \in DOMAIN context_cache /\ key \in ResidentKeys(context_cache[context])

\* ---- CacheMetrics ----
record_hit(h) == h + 1

record_miss(m) == m + 1

\* ---- Cache (the context router) ----
Init ==
  /\ context_cache = EmptyDict
  /\ context_policies = EmptyDict
  /\ hits = 0
  /\ misses = 0
  /\ last = Call("__init__", "", "", None, "", None, None, "", FALSE, 0)

\* set_context_policy keeping the instance of a context that is already registered
set_context_policy_keep(context, policy, capacity) ==
  LET invalid == \/ context = EmptyContext
                 \/ policy \notin PolicyNames
                 \/ (capacity # None /\ capacity[1] <= 0)
      r == CreateCache(policy, capacity)
      err == IF invalid THEN "ValueError" ELSE r.err
  IN /\ context_policies' =
          IF invalid THEN context_policies
          ELSE DictSet(context_policies, context,
                       [policy |-> policy,
                        capacity |-> IF capacity = None THEN DefaultCapacity
                                     ELSE capacity[1]])
     /\ context_cache' =
          IF err # "" \/ context \in DOMAIN context_cache THEN context_cache
          ELSE DictSet(context_cache, context, r.st)
     /\ last' = Call("set_context_policy", context, "", None, policy, capacity, None, err,
                     FALSE, SizeIn(context))
     /\ UNCHANGED << hits, misses >>

\* set_context_policy assigning a new context_cache dict instead of one item of it
set_context_policy_alone(context, policy, capacity) ==
  LET invalid == \/ context = EmptyContext
                 \/ policy \notin PolicyNames
                 \/ (capacity # None /\ capacity[1] <= 0)
      r == CreateCache(policy, capacity)
      err == IF invalid THEN "ValueError" ELSE r.err
  IN /\ context_policies' =
          IF invalid THEN context_policies
          ELSE DictSet(context_policies, context,
                       [policy |-> policy,
                        capacity |-> IF capacity = None THEN DefaultCapacity
                                     ELSE capacity[1]])
     /\ context_cache' =
          IF err # "" THEN context_cache ELSE DictSet(EmptyDict, context, r.st)
     /\ last' = Call("set_context_policy", context, "", None, policy, capacity, None, err,
                     FALSE, SizeIn(context))
     /\ UNCHANGED << hits, misses >>

\* set_context_policy starting a new CacheMetrics whenever it binds an instance
set_context_policy_resets(context, policy, capacity) ==
  LET invalid == \/ context = EmptyContext
                 \/ policy \notin PolicyNames
                 \/ (capacity # None /\ capacity[1] <= 0)
      r == CreateCache(policy, capacity)
      err == IF invalid THEN "ValueError" ELSE r.err
  IN /\ context_policies' =
          IF invalid THEN context_policies
          ELSE DictSet(context_policies, context,
                       [policy |-> policy,
                        capacity |-> IF capacity = None THEN DefaultCapacity
                                     ELSE capacity[1]])
     /\ context_cache' =
          IF err # "" THEN context_cache ELSE DictSet(context_cache, context, r.st)
     /\ last' = Call("set_context_policy", context, "", None, policy, capacity, None, err,
                     FALSE, SizeIn(context))
     /\ hits' = IF err # "" THEN hits ELSE 0
     /\ misses' = IF err # "" THEN misses ELSE 0

set_context_policy(context, policy, capacity) ==
  LET invalid == \/ context = EmptyContext
                 \/ policy \notin PolicyNames
                 \/ (capacity # None /\ capacity[1] <= 0)
      r == CreateCache(policy, capacity)
      err == IF invalid THEN "ValueError" ELSE r.err
  IN /\ context_policies' =
          IF invalid THEN context_policies
          ELSE DictSet(context_policies, context,
                       [policy |-> policy,
                        capacity |-> IF capacity = None THEN DefaultCapacity
                                     ELSE capacity[1]])
     /\ context_cache' =
          IF err # "" THEN context_cache ELSE DictSet(context_cache, context, r.st)
     /\ last' = Call("set_context_policy", context, "", None, policy, capacity, None, err,
                     FALSE, SizeIn(context))
     /\ UNCHANGED << hits, misses >>

get_cache(context) ==
  /\ last' = Call("get_cache", context, "", None, "", None, None,
                  IF context \notin DOMAIN context_cache THEN "ValueError" ELSE "",
                  FALSE, SizeIn(context))
  /\ UNCHANGED << context_cache, context_policies, hits, misses >>

\* get counting the call as a miss before it rejects the key or the context
get_counts_rejected(key, context) ==
  /\ hits + misses < MaxOps
  /\ IF key = EmptyKey \/ context \notin DOMAIN context_cache THEN
       /\ last' = Call("get", context, key, None, "", None, None, "ValueError",
                       FALSE, SizeIn(context))
       /\ misses' = record_miss(misses)
       /\ UNCHANGED << context_cache, hits >>
     ELSE LET r == PolicyGet(context_cache[context], key)
          IN /\ context_cache' = [context_cache EXCEPT ![context] = r.st]
             /\ hits' = IF r.err = "" /\ r.ret # Some(MISS) THEN record_hit(hits) ELSE hits
             /\ misses' = IF r.err = "" /\ r.ret = Some(MISS) THEN record_miss(misses) ELSE misses
             /\ last' = Call("get", context, key, None, "", None, r.ret, r.err,
                             ResidentIn(context, key), SizeIn(context))
  /\ UNCHANGED context_policies

get(key, context) ==
  /\ hits + misses < MaxOps
  /\ IF key = EmptyKey \/ context \notin DOMAIN context_cache THEN
       /\ last' = Call("get", context, key, None, "", None, None, "ValueError",
                       FALSE, SizeIn(context))
       /\ UNCHANGED << context_cache, hits, misses >>
     ELSE LET r == PolicyGet(context_cache[context], key)
          IN /\ context_cache' = [context_cache EXCEPT ![context] = r.st]
             /\ hits' = IF r.err = "" /\ r.ret # Some(MISS) THEN record_hit(hits) ELSE hits
             /\ misses' = IF r.err = "" /\ r.ret = Some(MISS) THEN record_miss(misses) ELSE misses
             /\ last' = Call("get", context, key, None, "", None, r.ret, r.err,
                             ResidentIn(context, key), SizeIn(context))
  /\ UNCHANGED context_policies

\* put recording a miss only for a key the cache did not hold
put_miss_if_absent(key, value, context) ==
  /\ hits + misses < MaxOps
  /\ IF key = EmptyKey \/ context \notin DOMAIN context_cache THEN
       /\ last' = Call("put", context, key, Some(value), "", None, None, "ValueError",
                       FALSE, SizeIn(context))
       /\ UNCHANGED << context_cache, hits, misses >>
     ELSE LET r == PolicyPut(context_cache[context], key, value)
          IN /\ context_cache' = [context_cache EXCEPT ![context] = r.st]
             /\ misses' = IF r.err = "" /\ ~ResidentIn(context, key)
                            THEN record_miss(misses) ELSE misses
             /\ last' = Call("put", context, key, Some(value), "", None, None, r.err,
                             ResidentIn(context, key), SizeIn(context))
             /\ UNCHANGED hits
  /\ UNCHANGED context_policies

put(key, value, context) ==
  /\ hits + misses < MaxOps
  /\ IF key = EmptyKey \/ context \notin DOMAIN context_cache THEN
       /\ last' = Call("put", context, key, Some(value), "", None, None, "ValueError",
                       FALSE, SizeIn(context))
       /\ UNCHANGED << context_cache, hits, misses >>
     ELSE LET r == PolicyPut(context_cache[context], key, value)
          IN /\ context_cache' = [context_cache EXCEPT ![context] = r.st]
             /\ misses' = IF r.err = "" THEN record_miss(misses) ELSE misses
             /\ last' = Call("put", context, key, Some(value), "", None, None, r.err,
                             ResidentIn(context, key), SizeIn(context))
             /\ UNCHANGED hits
  /\ UNCHANGED context_policies

\* clear_cache(context): "if context:" sends None and "" alike to the clear-all loop,
\* which stops at the first cache because clear() raises
clear_cache(context) ==
  LET err == IF context # EmptyContext
               THEN IF context \notin DOMAIN context_cache THEN "ValueError"
                    ELSE PolicyClear(context_cache[context]).err
             ELSE IF DOMAIN context_cache = {} THEN ""
                  ELSE PolicyClear(context_cache[CHOOSE c \in DOMAIN context_cache : TRUE]).err
  IN /\ context_cache' =
          IF context # EmptyContext /\ context \in DOMAIN context_cache
            THEN [context_cache EXCEPT ![context] = PolicyClear(context_cache[context]).st]
          ELSE context_cache
     /\ last' = Call("clear_cache", context, "", None, "", None, None, err,
                     FALSE, SizeIn(context))
     /\ UNCHANGED << context_policies, hits, misses >>

\* a policy class constructed directly by the caller; the instance is not kept
construct(policy, capacity) ==
  /\ last' = Call("construct", "", "", None, policy, capacity, None,
                  NewPolicy(policy, capacity).err, FALSE, 0)
  /\ UNCHANGED << context_cache, context_policies, hits, misses >>

\* every class is constructed with capacity 0, one of them also with -1 and with 1
ConstructInputs ==
  {<< policy, Some(0) >> : policy \in PolicyNames}
    \cup {<< "LRU", Some(-1) >>, << "LRU", Some(1) >>}

\* set_context_policy is called for "c1" with every policy and the capacities 1 and
\* MaxCap, with the capacity unset for two of the policy classes, and with triples in
\* which exactly one argument is invalid
SetPolicyInputs ==
  {<< "c1", policy, capacity >> :
      policy \in PolicyNames, capacity \in {Some(1), Some(MaxCap)}}
    \cup {<< "c1", "LRU", None >>, << "c1", "SLRU", None >>}
    \cup {<< "c1", "LRU", Some(0) >>, << "c1", "SLRU", Some(-1) >>,
          << EmptyContext, "LRU", Some(1) >>,
          << "c1", UnknownPolicy, Some(1) >>}

\* get and put address "c1" with every key, the empty one included, and "c2" with one key
GetInputs == {<< key, "c1" >> : key \in RouterKeys \cup {EmptyKey}} \cup {<< "a", "c2" >>}

PutInputs ==
  {<< key, value, "c1" >> : key \in RouterKeys, value \in RouterValues}
    \cup {<< EmptyKey, 1, "c1" >>, << "a", 1, "c2" >>}

\* one context, "c1", is ever registered; "c2" is addressed but stays unknown
Next ==
  \/ \E in \in SetPolicyInputs : set_context_policy(in[1], in[2], in[3])
  \/ \E context \in Contexts : get_cache(context)
  \/ \E in \in GetInputs : get(in[1], in[2])
  \/ \E in \in PutInputs : put(in[1], in[2], in[3])
  \/ \E context \in Contexts \cup {EmptyContext} : clear_cache(context)
  \/ \E in \in ConstructInputs : construct(in[1], in[2])

Spec == Init /\ [][Next]_vars

\* two contexts registered side by side, each with any policy and a capacity of 1
TwoContextNext ==
  \/ \E context \in Contexts, policy \in PolicyNames :
        set_context_policy(context, policy, Some(1))
  \/ \E key \in RouterKeys, context \in Contexts : get(key, context)
  \/ \E key \in RouterKeys, value \in RouterValues, context \in Contexts :
        put(key, value, context)

TwoContextSpec == Init /\ [][TwoContextNext]_vars

\* ---- a policy instance used directly, through the handle get_cache returns ----
\* the counters of LFU and TinyLFU are kept below MaxFreq: a call that would raise a
\* counter standing at MaxFreq is not made
FreqBounded(s, key, op) ==
  CASE s.kind = "LFU" -> key \in DOMAIN s.cache => s.cache[key][2] < MaxFreq
    [] s.kind = "TinyLFU" /\ op = "get" -> Count(s.frequency, key) < MaxFreq
    [] OTHER -> TRUE

PolicyInit ==
  \E policy \in PolicyNames, capacity \in 1..MaxCap :
    /\ context_cache = DictSet(EmptyDict, "c1", NewPolicy(policy, Some(capacity)).st)
    /\ context_policies = DictSet(EmptyDict, "c1", [policy |-> policy, capacity |-> capacity])
    /\ hits = 0
    /\ misses = 0
    /\ last = Call("set_context_policy", "c1", "", None, policy, Some(capacity), None, "",
                   FALSE, 0)

policy_get(context, key) ==
  /\ context \in DOMAIN context_cache
  /\ FreqBounded(context_cache[context], key, "get")
  /\ LET r == PolicyGet(context_cache[context], key)
     IN /\ context_cache' = [context_cache EXCEPT ![context] = r.st]
        /\ last' = Call("policy_get", context, key, None, "", None, r.ret, r.err,
                        ResidentIn(context, key), SizeIn(context))
  /\ UNCHANGED << context_policies, hits, misses >>

policy_put(context, key, value) ==
  /\ context \in DOMAIN context_cache
  /\ FreqBounded(context_cache[context], key, "put")
  /\ LET r == PolicyPut(context_cache[context], key, value)
     IN /\ context_cache' = [context_cache EXCEPT ![context] = r.st]
        /\ last' = Call("policy_put", context, key, Some(value), "", None, None, r.err,
                        ResidentIn(context, key), SizeIn(context))
  /\ UNCHANGED << context_policies, hits, misses >>

PolicyNext ==
  \/ \E key \in Keys : policy_get("c1", key)
  \/ \E key \in Keys, value \in Values : policy_put("c1", key, value)

PolicySpec == PolicyInit /\ [][PolicyNext]_vars

\* ---- one SLRUCache used directly, built with an explicit protected_ratio ----
\* ratios p/q with 0 < p/q < 1 whose float product with a small capacity is exact
Ratios == {<< 1, 4 >>, << 1, 2 >>, << 3, 4 >>}

SLRUInit ==
  \E capacity \in 1..(MaxCap + 1), ratio \in Ratios :
    /\ context_cache = DictSet(EmptyDict, "c1", SLRUCache(capacity, ratio))
    /\ context_policies = DictSet(EmptyDict, "c1",
                                  [policy |-> "SLRU", capacity |-> capacity,
                                   protected_ratio |-> ratio])
    /\ hits = 0
    /\ misses = 0
    /\ last = Call("construct", "c1", "", None, "SLRU", Some(capacity), None, "", FALSE, 0)

SLRUSpec == SLRUInit /\ [][PolicyNext]_vars

\* ---- one ClockCache used directly ----
ClockInit ==
  \E capacity \in 1..(MaxCap + 1) :
    /\ context_cache = DictSet(EmptyDict, "c1", ClockCache(capacity))
    /\ context_policies = DictSet(EmptyDict, "c1", [policy |-> "Clock", capacity |-> capacity])
    /\ hits = 0
    /\ misses = 0
    /\ last = Call("construct", "c1", "", None, "Clock", Some(capacity), None, "", FALSE, 0)

\* four keys, so that a slot array of three slots can be full when a new key comes
ClockKeys == Keys \cup {"d"}

ClockValues == {1, 2}

ClockNext ==
  \/ \E key \in ClockKeys : policy_get("c1", key)
  \/ \E key \in ClockKeys, value \in ClockValues : policy_put("c1", key, value)

ClockSpec == ClockInit /\ [][ClockNext]_vars

\* ======================= properties =======================

\* C1: for each of the seven policies built with capacity c >= 1, after every get or
\* put the number of resident entries (SLRU: probation plus protected) is at most c.
CapacityInvariant ==
  \A c \in DOMAIN context_cache : Size(context_cache[c]) <= context_policies[c].capacity

\* a put of a non-resident key into a full cache has returned, and the cache is full
CapacityWitness ==
  /\ last.op = "policy_put" /\ last.err = "" /\ ~last.resident
  /\ last.size = context_policies["c1"].capacity
  /\ Size(context_cache["c1"]) = last.size

\* C2: put(k, v) immediately followed by get(k) on the same cache returns v.
RoundTrip ==
  [][(/\ last.op = "policy_put" /\ last.err = ""
      /\ last'.op = "policy_get"
      /\ last'.key = last.key /\ last'.context = last.context)
     => last'.ret = Some(last.value[1])]_vars

\* C3: a router or policy operation that ends in an error leaves the registered
\* contexts, their configuration, every policy instance and the counters unchanged.
ErrorsLeaveStateUnchanged ==
  [][last'.err # "" => UNCHANGED << context_cache, context_policies, hits, misses >>]_vars

\* C4: set_context_policy with capacity unset, a non-empty context and a policy of the
\* closed set succeeds and binds the context to a fresh instance of default_capacity.
DefaultCapacityBinds ==
  [][(/\ last'.op = "set_context_policy" /\ last'.capacity = None
      /\ last'.context # EmptyContext /\ last'.policy \in PolicyNames)
     => (/\ last'.err = ""
         /\ last'.context \in DOMAIN context_cache'
         /\ context_cache'[last'.context].kind = last'.policy
         /\ Capacity(context_cache'[last'.context]) = DefaultCapacity
         /\ Size(context_cache'[last'.context]) = 0)]_vars

\* C5: clear_cache(context) on a registered context completes, afterwards get on every
\* key that was resident returns MISS and the configuration is unchanged; clear_cache()
\* with no context does the same for every registered context.
ClearEmptiesCache ==
  [][(/\ last'.op = "clear_cache"
      /\ (last'.context = EmptyContext \/ last'.context \in DOMAIN context_cache))
     => (/\ last'.err = ""
         /\ context_policies' = context_policies
         /\ \A c \in (IF last'.context = EmptyContext THEN DOMAIN context_cache
                      ELSE {last'.context}) :
              \A k \in ResidentKeys(context_cache[c]) :
                 PolicyGet(context_cache'[c], k).ret = Some(MISS))]_vars

\* C6: after a successful set_context_policy on an already registered context the
\* context is bound to a fresh, empty instance of the given policy and capacity, and get
\* on every key held before the re-registration returns MISS.
ReRegistrationFresh ==
  [][(/\ last'.op = "set_context_policy" /\ last'.err = ""
      /\ last'.context \in DOMAIN context_cache)
     => (/\ context_cache'[last'.context].kind = last'.policy
         /\ Capacity(context_cache'[last'.context]) = last'.capacity[1]
         /\ context_policies'[last'.context] =
              [policy |-> last'.policy, capacity |-> last'.capacity[1]]
         /\ Size(context_cache'[last'.context]) = 0
         /\ \A k \in ResidentKeys(context_cache[last'.context]) :
              PolicyGet(context_cache'[last'.context], k).ret = Some(MISS))]_vars

\* a context that held entries has just been re-registered
ReRegistrationWitness ==
  /\ last.op = "set_context_policy" /\ last.err = "" /\ last.size > 0
  /\ Size(context_cache[last.context]) = 0

\* C7: a router get that returns records exactly one hit and no miss when the key is
\* resident in the context's cache, whatever value is stored under it, and exactly one
\* miss and no hit when it is not.
HitIffResident ==
  [][(last'.op = "get" /\ last'.err = "")
     => IF ResidentIn(last'.context, last'.key)
          THEN hits' = hits + 1 /\ misses' = misses
          ELSE misses' = misses + 1 /\ hits' = hits]_vars

\* C8: each returning get adds 1 to exactly one of hits or misses, each returning put
\* adds 1 to misses and leaves hits unchanged, and no other operation changes either
\* counter; so hits + misses counts the get and put calls that returned.
MetricsAccounting ==
  [][/\ (last'.op = "get" /\ last'.err = "")
          => \/ hits' = hits + 1 /\ misses' = misses
             \/ hits' = hits /\ misses' = misses + 1
     /\ (last'.op = "put" /\ last'.err = "")
          => misses' = misses + 1 /\ hits' = hits
     /\ ~(last'.op \in {"get", "put"} /\ last'.err = "")
          => UNCHANGED << hits, misses >>]_vars

\* a put on a resident key has returned after a hit was recorded
MetricsWitness ==
  last.op = "put" /\ last.err = "" /\ last.resident /\ hits >= 1 /\ misses >= 2

\* C9: get on a key that is not resident returns the miss sentinel and leaves the
\* policy's keys, values, order and all eviction metadata unchanged.
MissChangesNothing ==
  [][(last'.op = "policy_get" /\ ~ResidentIn(last'.context, last'.key))
     => (/\ last'.err = "" /\ last'.ret = Some(MISS)
         /\ context_cache' = context_cache)]_vars

\* a get missed on a full cache
MissWitness ==
  /\ last.op = "policy_get" /\ ~last.resident /\ last.ret = Some(MISS)
  /\ last.size = context_policies["c1"].capacity

\* C10: a get, put or set_context_policy addressed to one context never changes the
\* instance or the configuration of any other registered context.
ContextsIsolated ==
  [][\A c \in DOMAIN context_cache :
       (last'.op \in {"get", "put", "set_context_policy"} /\ last'.context # c)
       => (/\ c \in DOMAIN context_cache'
           /\ context_cache'[c] = context_cache[c]
           /\ context_policies'[c] = context_policies[c])]_vars

\* a put into the full cache of "c1" stored a key that "c2" holds with another value
IsolationWitness ==
  /\ last.op = "put" /\ last.err = "" /\ last.context = "c1" /\ ~last.resident
  /\ last.size = context_policies["c1"].capacity
  /\ ResidentIn("c1", last.key) /\ ResidentIn("c2", last.key)
  /\ PolicyGet(context_cache["c1"], last.key).ret = last.value
  /\ PolicyGet(context_cache["c2"], last.key).ret # last.value

\* C11: router get and put with an empty key, and get, put, get_cache and
\* clear_cache(context) naming a context that is not registered, fail with an error,
\* record neither a hit nor a miss and register nothing; a context becomes registered
\* (known to get_cache) only through a set_context_policy that returns.
RejectedCallsRegisterNothing ==
  [][/\ (\/ last'.op \in {"get", "put"} /\ last'.key = EmptyKey
         \/ /\ last'.op \in {"get", "put", "get_cache", "clear_cache"}
            /\ last'.context # EmptyContext
            /\ last'.context \notin DOMAIN context_cache)
        => (/\ last'.err # ""
            /\ UNCHANGED << hits, misses, context_cache, context_policies >>)
     /\ (DOMAIN context_cache' # DOMAIN context_cache)
        => (/\ last'.op = "set_context_policy" /\ last'.err = ""
            /\ DOMAIN context_cache' = (DOMAIN context_cache) \cup {last'.context})]_vars

\* a put naming the unknown context "c2" was rejected while "c1" is registered and in use
RejectedWitness ==
  /\ last.op = "put" /\ last.context = "c2" /\ last.err = "ValueError"
  /\ "c1" \in DOMAIN context_cache /\ "c2" \notin DOMAIN context_cache
  /\ hits + misses > 0

\* C12: set_context_policy succeeds for each of the seven identifiers given a non-empty
\* context and an explicit capacity >= 1, and fails for an empty context name, for an
\* identifier outside the set and for an explicit capacity <= 0; constructing a policy
\* directly with capacity <= 0 fails too.
RegistrationValidated ==
  [][/\ (/\ last'.op = "set_context_policy"
         /\ last'.context # EmptyContext /\ last'.policy \in PolicyNames
         /\ last'.capacity # None /\ last'.capacity[1] >= 1)
        => (/\ last'.err = ""
            /\ last'.context \in DOMAIN context_cache'
            /\ context_cache'[last'.context].kind = last'.policy)
     /\ (/\ last'.op = "set_context_policy"
         /\ \/ last'.context = EmptyContext
            \/ last'.policy \notin PolicyNames
            \/ (last'.capacity # None /\ last'.capacity[1] <= 0))
        => (last'.err # "" /\ UNCHANGED << context_cache, context_policies >>)
     /\ (last'.op = "construct" /\ last'.capacity # None /\ last'.capacity[1] <= 0)
        => last'.err # ""]_vars

\* a direct construction with capacity 0 was rejected after a context was registered
RegistrationWitness ==
  /\ last.op = "construct" /\ last.capacity = Some(0) /\ last.err = "ValueError"
  /\ "c1" \in DOMAIN context_cache

\* C13: the router's hits and misses start at 0 and never decrease across any router
\* operation, failed calls, re-registration and clear_cache included.
CountersMonotone ==
  /\ hits = 0 /\ misses = 0
  /\ [][hits' >= hits /\ misses' >= misses]_vars

\* a context was re-registered after calls had been counted
CountersWitness ==
  /\ last.op = "set_context_policy" /\ last.err = "" /\ last.size > 0
  /\ hits >= 1 /\ misses >= 1

\* C14: for each of the seven policies built with capacity >= 1 (SLRU with its default
\* ratio), every get and every put in any sequence of calls completes without an error.
PolicyCallsComplete ==
  last.op \in {"policy_get", "policy_put"} => last.err = ""

\* C15: whenever get(k) returns a value other than the miss sentinel, it is the value
\* of the most recent put(k, .) on that cache.  Stated step by step: a get hit returns
\* the value held under the key; a put that returns and leaves its key resident leaves
\* the put value held under it; a key that stays resident across a call other than a
\* put on it keeps its value; and a key becomes resident only by a put on it.
ReturnsLatestPut ==
  [][\A c \in DOMAIN context_cache :
       (last'.op \in {"policy_get", "policy_put"} /\ last'.context = c)
       => /\ (last'.op = "policy_get" /\ last'.err = "" /\ last'.ret # Some(MISS))
               => (/\ last'.key \in ResidentKeys(context_cache[c])
                   /\ last'.ret = Some(StoredValue(context_cache[c], last'.key)))
          /\ (/\ last'.op = "policy_put" /\ last'.err = ""
              /\ last'.key \in ResidentKeys(context_cache'[c]))
               => Some(StoredValue(context_cache'[c], last'.key)) = last'.value
          /\ \A k \in ResidentKeys(context_cache'[c]) :
               ~(last'.op = "policy_put" /\ last'.key = k)
               => (/\ k \in ResidentKeys(context_cache[c])
                   /\ StoredValue(context_cache'[c], k) = StoredValue(context_cache[c], k))]_vars

\* C16: in LRU the cache order is the order of most recent access: a get miss leaves
\* it alone, every get hit and every put makes its key the last (most recently used)
\* and keeps the other keys in their order; no key is removed except by a put of a
\* non-resident key into a full cache, which removes exactly the first key of the
\* order, the one whose most recent access is the oldest.
LRUEvictsOldestAccess ==
  [][\A c \in DOMAIN context_cache :
       LET s == context_cache[c]
           key == last'.key
           before == KeySeq(s.cache)
           after == KeySeq(context_cache'[c].cache)
           IsOther(k) == k # key
       IN (/\ s.kind = "LRU" /\ last'.context = c
           /\ last'.op \in {"policy_get", "policy_put"})
          => /\ (last'.op = "policy_get" /\ ~SeqHas(before, key)) => after = before
             /\ (last'.op = "policy_put" \/ SeqHas(before, key))
                  => (after # << >> /\ after[Len(after)] = key)
             /\ (\/ last'.op = "policy_get"
                 \/ SeqHas(before, key)
                 \/ Len(before) < s.capacity)
                  => SelectSeq(after, IsOther) = SelectSeq(before, IsOther)
             /\ (/\ last'.op = "policy_put" /\ ~SeqHas(before, key)
                 /\ Len(before) >= s.capacity)
                  => after = Append(Tail(before), key)]_vars

LRUEvictionWitness ==
  /\ "c1" \in DOMAIN context_cache
  /\ context_cache["c1"].kind = "LRU"
  /\ context_cache["c1"].capacity >= 2
  /\ last.op = "policy_put" /\ ~last.resident
  /\ last.size = context_cache["c1"].capacity
  /\ KeySeq(context_cache["c1"].cache) = << "a", "c" >>

\* C17: in FIFO the order queue lists exactly the resident keys, each once, by their
\* most recent put: get changes nothing; a put on a resident key moves it to the
\* newest position and keeps the others in their order; a put of a non-resident key
\* into a full cache evicts exactly the head of the queue, the key whose most recent
\* put is the oldest, whatever was read in between.
FIFOEvictsOldestPut ==
  [][\A c \in DOMAIN context_cache :
       LET s == context_cache[c]
           t == context_cache'[c]
           key == last'.key
           IsOther(k) == k # key
       IN (/\ s.kind = "FIFO" /\ last'.context = c
           /\ last'.op \in {"policy_get", "policy_put"})
          => /\ last'.op = "policy_get" => t = s
             /\ (last'.op = "policy_put" /\ key \in DOMAIN s.cache)
                  => (/\ t.order = Append(SelectSeq(s.order, IsOther), key)
                      /\ DOMAIN t.cache = DOMAIN s.cache)
             /\ (/\ last'.op = "policy_put" /\ key \notin DOMAIN s.cache
                 /\ DictLen(s.cache) < s.capacity)
                  => (/\ t.order = Append(s.order, key)
                      /\ DOMAIN t.cache = (DOMAIN s.cache) \cup {key})
             /\ (/\ last'.op = "policy_put" /\ key \notin DOMAIN s.cache
                 /\ DictLen(s.cache) >= s.capacity)
                  => (/\ t.order = Append(Tail(s.order), key)
                      /\ DOMAIN t.cache = ((DOMAIN s.cache) \ {Head(s.order)}) \cup {key})
             /\ {t.order[i] : i \in 1..Len(t.order)} = DOMAIN t.cache
             /\ Len(t.order) = Cardinality(DOMAIN t.cache)]_vars

\* a put of "c" into a full cache displaced the head of the queue
FIFOEvictionWitness ==
  /\ "c1" \in DOMAIN context_cache
  /\ context_cache["c1"].kind = "FIFO"
  /\ context_cache["c1"].capacity >= 2
  /\ last.op = "policy_put" /\ ~last.resident
  /\ last.size = context_cache["c1"].capacity
  /\ context_cache["c1"].order = << "b", "c" >>

\* C18: in LFU a key enters with frequency 1 and each get hit and each put on it
\* while resident adds 1; other keys keep their frequency.  Every frequency bucket
\* lists exactly the resident keys of that frequency, each once, in the order in
\* which they reached it (a key reaching a frequency goes to the end).  A put of a
\* non-resident key into a full cache evicts exactly one key: it has the minimum
\* frequency among the resident keys and is the head of that frequency's bucket.
LFUEvictsLeastFrequent ==
  [][\A c \in DOMAIN context_cache :
       LET s == context_cache[c]
           t == context_cache'[c]
           key == last'.key
           isPut == last'.op = "policy_put"
           gone == (DOMAIN s.cache) \ (DOMAIN t.cache)
           Stays(k) == k # key /\ k \notin gone
       IN (/\ s.kind = "LFU" /\ last'.context = c
           /\ last'.op \in {"policy_get", "policy_put"})
          => /\ (~isPut /\ key \notin DOMAIN s.cache) => t = s
             /\ (isPut /\ key \notin DOMAIN s.cache)
                  => (key \in DOMAIN t.cache /\ t.cache[key][2] = 1)
             /\ key \in DOMAIN s.cache
                  => (key \in DOMAIN t.cache /\ t.cache[key][2] = s.cache[key][2] + 1)
             /\ \A k \in (DOMAIN t.cache) \ {key} :
                  k \in DOMAIN s.cache /\ t.cache[k][2] = s.cache[k][2]
             /\ IF isPut /\ key \notin DOMAIN s.cache /\ DictLen(s.cache) >= s.capacity
                  THEN \E v \in DOMAIN s.cache :
                         /\ gone = {v}
                         /\ \A k \in DOMAIN s.cache : s.cache[v][2] <= s.cache[k][2]
                         /\ v = Head(Bucket(s.freq, s.cache[v][2]))
                  ELSE gone = {}
             /\ \A f \in (DOMAIN s.freq) \cup (DOMAIN t.freq) :
                  LET b == Bucket(t.freq, f)
                  IN /\ {b[i] : i \in 1..Len(b)} = {k \in DOMAIN t.cache : t.cache[k][2] = f}
                     /\ Len(b) = Cardinality({k \in DOMAIN t.cache : t.cache[k][2] = f})
                     /\ SelectSeq(b, Stays) = SelectSeq(Bucket(s.freq, f), Stays)
                     /\ (key \in DOMAIN t.cache /\ t.cache[key][2] = f /\ t # s)
                          => b[Len(b)] = key]_vars

\* a put of a new key into a full LFU cache evicted the less used of two keys
LFUEvictionWitness ==
  /\ "c1" \in DOMAIN context_cache
  /\ context_cache["c1"].kind = "LFU"
  /\ context_cache["c1"].capacity >= 2
  /\ last.op = "policy_put" /\ ~last.resident
  /\ last.size = context_cache["c1"].capacity
  /\ \E k \in DOMAIN context_cache["c1"].cache : context_cache["c1"].cache[k][2] >= 2

\* C19: in MRU a get never changes the entries or their order, and a put of a
\* non-resident key into a full cache evicts the entry it has just inserted: the
\* keys, their values and their order after the put are those before it.
MRUEvictsJustInserted ==
  [][\A c \in DOMAIN context_cache :
       LET s == context_cache[c]
       IN (/\ s.kind = "MRU" /\ last'.context = c
           /\ last'.op \in {"policy_get", "policy_put"})
          => /\ last'.op = "policy_get" => context_cache'[c] = s
             /\ (/\ last'.op = "policy_put" /\ ~ODHas(s.cache, last'.key)
                 /\ Len(s.cache) >= s.capacity)
                  => (last'.err = "" /\ context_cache'[c].cache = s.cache)]_vars

\* a put of a new key into a full MRU cache has returned and the key is not resident
MRUEvictionWitness ==
  /\ "c1" \in DOMAIN context_cache
  /\ context_cache["c1"].kind = "MRU"
  /\ last.op = "policy_put" /\ ~last.resident /\ last.err = ""
  /\ last.size = context_cache["c1"].capacity
  /\ ~ODHas(context_cache["c1"].cache, last.key)

ProtectedEvictionDiscards ==
  [][\A c \in DOMAIN context_cache :
       LET s == context_cache[c]
           t == context_cache'[c]
       IN (/\ s.kind = "SLRU" /\ last'.context = c
           /\ last'.op \in {"policy_get", "policy_put"})
          => /\ \A k \in (DOMAIN s.protected_cache) \ (DOMAIN t.protected_cache) :
                  /\ k = Head(s.protected)
                  /\ DictLen(s.protected_cache) >= s.protected_capacity
                  /\ k \notin DOMAIN t.probation_cache
                  /\ ~SeqHas(t.probation, k)
                  /\ SLRUGet(t, k).ret = Some(MISS)
             /\ \A k \in (DOMAIN t.probation_cache) \ (DOMAIN s.probation_cache) :
                  last'.op = "policy_put" /\ last'.key = k]_vars

\* C22: in SLRU no key is held in the probation segment and in the protected
\* segment at the same time.
SegmentsDisjoint ==
  \A c \in DOMAIN context_cache :
    context_cache[c].kind = "SLRU"
    => (DOMAIN context_cache[c].probation_cache)
         \cap (DOMAIN context_cache[c].protected_cache) = {}

\* C23: in SLRU a get on a key held in protected returns its value and changes no
\* segment; a get on a key held in probation returns its value, removes the key from
\* probation and appends it at the protected tail; a put of a key in neither segment
\* appends it at the probation tail, first evicting the probation head when
\* probation is full, and leaves protected untouched.
SLRUGetPutSegments ==
  [][\A c \in DOMAIN context_cache :
       LET s == context_cache[c]
           t == context_cache'[c]
           key == last'.key
           inProtected == key \in DOMAIN s.protected_cache
           inProbation == key \in DOMAIN s.probation_cache
       IN (/\ s.kind = "SLRU" /\ last'.context = c
           /\ last'.op \in {"policy_get", "policy_put"})
          => /\ (last'.op = "policy_get" /\ inProtected)
                  => (last'.ret = Some(s.protected_cache[key]) /\ t = s)
             /\ (last'.op = "policy_get" /\ ~inProtected /\ inProbation)
                  => (/\ last'.err = ""
                      /\ last'.ret = Some(s.probation_cache[key])
                      /\ key \notin DOMAIN t.probation_cache
                      /\ ~SeqHas(t.probation, key)
                      /\ t.protected # << >>
                      /\ t.protected[Len(t.protected)] = key
                      /\ key \in DOMAIN t.protected_cache
                      /\ t.protected_cache[key] = s.probation_cache[key])
             /\ (last'.op = "policy_put" /\ ~inProtected /\ ~inProbation)
                  => (/\ last'.err = ""
                      /\ t.probation =
                           Append(IF Len(s.probation) >= s.probation_capacity
                                    THEN Tail(s.probation) ELSE s.probation, key)
                      /\ DOMAIN t.probation_cache = {t.probation[i] : i \in 1..Len(t.probation)}
                      /\ t.probation_cache[key] = last'.value[1]
                      /\ t.protected = s.protected
                      /\ t.protected_cache = s.protected_cache)]_vars

SweepEvictsOne ==
  [][\A c \in DOMAIN context_cache :
       LET s == context_cache[c]
           t == context_cache'[c]
       IN (/\ s.kind = "Clock" /\ last'.context = c /\ last'.op = "policy_put"
           /\ last'.key \notin DOMAIN s.cache
           /\ DictLen(s.cache) >= s.capacity)
          => /\ last'.err = ""
             /\ SweepExamined(s) <= 2 * s.capacity
             /\ Cardinality((DOMAIN s.cache) \ (DOMAIN t.cache)) = 1
             /\ (DOMAIN t.cache) \ (DOMAIN s.cache) = {last'.key}
             /\ Len(t.keys) = Len(s.keys)]_vars

\* a sweep evicted a key and left every other resident key with its bit cleared
SweepWitness ==
  /\ "c1" \in DOMAIN context_cache
  /\ context_cache["c1"].kind = "Clock"
  /\ context_cache["c1"].capacity >= 2
  /\ last.op = "policy_put" /\ ~last.resident /\ last.err = ""
  /\ last.size = context_cache["c1"].capacity
  /\ \A k \in (DOMAIN context_cache["c1"].cache) \ {last.key} :
       context_cache["c1"].reference_bits[k] = 0

\* C26: in Clock the victim of a sweep is the key in the first slot, in cyclic order
\* from the pointer, whose reference bit is 0, or the key in the pointer's own slot
\* when every bit is 1; the slots examined before the victim keep their keys with
\* their bits cleared to 0 and the slots not examined keep key and bit; the new key
\* takes the victim's slot with bit 1 and the pointer rests on that slot; a get
\* never changes the slot array or the pointer.
SweepVictim ==
  [][\A c \in DOMAIN context_cache :
       LET s == context_cache[c]
           t == context_cache'[c]
           n == s.capacity
           Slot(d) == ((s.pointer + d) % n) + 1
           zeros == {d \in 0..(n - 1) : s.reference_bits[s.keys[Slot(d)]] = 0}
           dist == IF zeros = {} THEN 0
                   ELSE CHOOSE d \in zeros : \A e \in zeros : d <= e
           examined == IF zeros = {} THEN 1..(n - 1) ELSE 0..(dist - 1)
       IN (s.kind = "Clock" /\ last'.context = c)
          => /\ last'.op = "policy_get"
                  => (t.keys = s.keys /\ t.pointer = s.pointer)
             /\ (/\ last'.op = "policy_put" /\ last'.key \notin DOMAIN s.cache
                 /\ DictLen(s.cache) >= s.capacity)
                  => (/\ t.keys = [s.keys EXCEPT ![Slot(dist)] = last'.key]
                      /\ s.keys[Slot(dist)] \notin DOMAIN t.cache
                      /\ t.pointer = Slot(dist) - 1
                      /\ t.reference_bits[last'.key] = 1
                      /\ t.cache[last'.key] = last'.value[1]
                      /\ \A d \in 0..(n - 1) :
                           d # dist =>
                             t.reference_bits[s.keys[Slot(d)]] =
                               IF d \in examined THEN 0
                               ELSE s.reference_bits[s.keys[Slot(d)]])]_vars

\* a sweep passed over a slot whose bit was set and took a later slot
SweepVictimWitness ==
  /\ "c1" \in DOMAIN context_cache
  /\ context_cache["c1"].kind = "Clock"
  /\ context_cache["c1"].capacity >= 2
  /\ last.op = "policy_put" /\ ~last.resident /\ last.err = ""
  /\ last.size = context_cache["c1"].capacity
  /\ context_cache["c1"].pointer >= 1
  /\ context_cache["c1"].pointer + 1 < Len(context_cache["c1"].keys)
  /\ context_cache["c1"].keys[context_cache["c1"].pointer + 1] = last.key
  /\ \E k \in DOMAIN context_cache["c1"].reference_bits :
       k # last.key /\ context_cache["c1"].reference_bits[k] = 1

\* C27: in LFU, after every get or put, if the cache is non-empty then min_freq is
\* the smallest frequency of any resident key, and the frequency buckets partition
\* the resident keys: each resident key is in the bucket of its recorded frequency,
\* once, and in no other bucket, and no bucket holds a non-resident key.
LFUBucketsConsistent ==
  \A c \in DOMAIN context_cache :
    LET s == context_cache[c]
    IN s.kind = "LFU"
       => /\ (DOMAIN s.cache # {})
               => (/\ \E k \in DOMAIN s.cache : s.cache[k][2] = s.min_freq
                   /\ \A k \in DOMAIN s.cache : s.cache[k][2] >= s.min_freq)
          /\ \A k \in DOMAIN s.cache :
               /\ s.cache[k][2] \in DOMAIN s.freq
               /\ Cardinality({i \in 1..Len(s.freq[s.cache[k][2]]) :
                                 s.freq[s.cache[k][2]][i] = k}) = 1
          /\ \A f \in DOMAIN s.freq : \A i \in 1..Len(s.freq[f]) :
               /\ s.freq[f][i] \in DOMAIN s.cache
               /\ s.cache[s.freq[f][i]][2] = f

\* a get on a full cache emptied the minimum bucket and min_freq moved up
LFUBucketsWitness ==
  /\ "c1" \in DOMAIN context_cache
  /\ context_cache["c1"].kind = "LFU"
  /\ context_cache["c1"].capacity >= 2
  /\ last.op = "policy_get" /\ last.resident
  /\ context_cache["c1"].min_freq >= 2
  /\ DictLen(context_cache["c1"].cache) = context_cache["c1"].capacity

\* C28: in Clock, after every get or put, the slot array holds each resident key
\* exactly once and nothing else, the reference-bit map has a bit in {0, 1} for
\* exactly the resident keys, the slot array is no longer than capacity, and
\* 0 <= pointer < capacity.
ClockStructure ==
  \A c \in DOMAIN context_cache :
    LET s == context_cache[c]
    IN s.kind = "Clock"
       => /\ {s.keys[i] : i \in 1..Len(s.keys)} = DOMAIN s.cache
          /\ Len(s.keys) = Cardinality(DOMAIN s.cache)
          /\ DOMAIN s.reference_bits = DOMAIN s.cache
          /\ \A k \in DOMAIN s.reference_bits : s.reference_bits[k] \in {0, 1}
          /\ Len(s.keys) <= s.capacity
          /\ 0 <= s.pointer /\ s.pointer < s.capacity

\* sweeps have moved the pointer to the last slot of a full slot array
ClockStructureWitness ==
  /\ "c1" \in DOMAIN context_cache
  /\ context_cache["c1"].kind = "Clock"
  /\ last.op \in {"policy_get", "policy_put"}
  /\ Len(context_cache["c1"].keys) = context_cache["c1"].capacity
  /\ context_cache["c1"].pointer = context_cache["c1"].capacity - 1
  /\ context_cache["c1"].pointer >= 1
  /\ \E k \in DOMAIN context_cache["c1"].reference_bits :
       context_cache["c1"].reference_bits[k] = 0

====
